---- MODULE Spec2Model ----
(***************************************************************************)
(* Executive Decision Maker (src/src/main.rs): the App state machine       *)
(* (ask, tick, on_key), the renderer's projection of it, and the driver    *)
(* (setup_terminal, run_app's loop, cleanup_terminal, main).               *)
(***************************************************************************)
EXTENDS Integers, Sequences, FiniteSets, TLC

VARIABLES
    app,        \* the App record: state, help_visible, last_answer
    now,        \* the latest reading of the monotonic clock (ms)
    pc,         \* position of main / run_app
    key,        \* the KeyEvent read in this iteration, NoKey otherwise
    term,       \* terminal modes held: raw, alt, cursor_hidden
    result,     \* what run_app returned / what main returns
    exit_path,  \* how the program left: none, setup_error, quit, loop_error, panic
    frame,      \* what draw rendered in this iteration of the loop
    asks,       \* history: number of ask() calls so far
    ask_at,     \* history: the instant the latest ask() read
    ask_final,  \* history: the final_index the latest ask() chose
    shown,      \* history: Animating -> Showing transitions since the latest ask()
    shuffled    \* history: a shuffle step has acted since the latest ask()

vars == <<app, now, pc, key, term, result, exit_path, frame,
          asks, ask_at, ask_final, shown, shuffled>>

---------------------------------------------------------------------------
(* Program constants *)

ANSWERS == <<"DEFINITELY", "FORGET IT", "ASK AGAIN", "NEVER", "POSSIBLY", "WHY NOT">>
N == Len(ANSWERS)
Indices == 0 .. (N - 1)

ANIMATION_DURATION_MS == 2000
ANIMATION_STEP_MS == 120
ANSWER_FLASH_MS == 1500

(* Bounds *)

\* ask() is called at most MaxAsks times in a run.
MaxAsks == 2

\* The instants the clock is read at.  They include a reading inside the
\* last ANIMATION_STEP_MS before a deadline, the deadline itself and
\* readings past it, for questions asked at 0, 100, 2000 and 3500.
Instants == {0, 100, 120, 1900, 1999, 2000, 2100, 3500, 3600, 4000, 5500, 7000}

\* The fewer instants and keys the liveness specification draws from.
LiveInstants == {0, 1900, 2000, 3500, 5500, 7000}

\* A monotonic clock: a reading, drawn from I, is never earlier than the one
\* before.
Readings(I, t) == {u \in I : u >= t}

---------------------------------------------------------------------------
(* Data model *)

None == <<>>
Some(i) == <<i>>

Idle == [tag |-> "Idle"]
Animating(f, c, e, n) ==
    [tag |-> "Animating", final_index |-> f, current_index |-> c,
     end_at |-> e, next_switch |-> n]
Showing(i, u) == [tag |-> "Showing", index |-> i, until |-> u]

new == [state |-> Idle, help_visible |-> FALSE, last_answer |-> None]

---------------------------------------------------------------------------
(* App::ask *)

\* Mutant: ask() without its rejection loop.
ask_draws_any == Indices \X Indices

\* The pairs <<final_idx, current_idx>> the two draws and the rejection
\* loop can leave.
ask_draws == {d \in Indices \X Indices : N > 1 => d[2] # d[1]}

\* Mutant: ask() that keeps the previous last_answer.
ask_keep_answer(a, t) ==
    {[a EXCEPT !.state = Animating(d[1], d[2], t + ANIMATION_DURATION_MS, t)]
        : d \in ask_draws}

\* Mutant: ask() during an animation keeps that animation's end_at.
ask_keep_deadline(a, t) ==
    {[a EXCEPT !.last_answer = None,
               !.state = Animating(d[1], d[2],
                                   IF a.state.tag = "Animating" THEN a.state.end_at
                                   ELSE t + ANIMATION_DURATION_MS, t)]
        : d \in ask_draws}

\* Mutant: ask() that schedules the first switch one step away.
ask_delayed_switch(a, t) ==
    {[a EXCEPT !.last_answer = None,
               !.state = Animating(d[1], d[2], t + ANIMATION_DURATION_MS,
                                   t + ANIMATION_STEP_MS)]
        : d \in ask_draws}

\* Mutant: ask() that sets end_at one flash, not one animation, away.
ask_short_animation(a, t) ==
    {[a EXCEPT !.last_answer = None,
               !.state = Animating(d[1], d[2], t + ANSWER_FLASH_MS, t)]
        : d \in ask_draws}

\* The App records ask() can leave when the clock reads t.
ask(a, t) ==
    {[a EXCEPT !.last_answer = None,
               !.state = Animating(d[1], d[2], t + ANIMATION_DURATION_MS, t)]
        : d \in ask_draws}

(* App::tick *)

\* Mutant: the shuffle step draws from 0..=len instead of 0..len.
shuffle_draws_inclusive(current_index) == {i \in 0 .. N : i # current_index}

\* Mutant: the shuffle step without its rejection loop.
shuffle_draws_any(current_index) == Indices

\* The next_index values the draw and the rejection loop can leave.
shuffle_draws(current_index) == {i \in Indices : N > 1 => i # current_index}

\* tick() with one of its lines changed, for the mutants below.
tick_variant(a, t, bug) ==
    LET s == a.state
        ended == IF bug = "late_end" THEN t > s.end_at ELSE t >= s.end_at
        expired == IF bug = "late_until" THEN t > s.until ELSE t >= s.until
        step == IF bug = "wrong_step" THEN ANIMATION_DURATION_MS ELSE ANIMATION_STEP_MS
        kept == IF bug = "forget" THEN None ELSE a.last_answer
        settled == IF bug = "skip_flash" THEN Idle
                   ELSE Showing(s.final_index, t + ANSWER_FLASH_MS)
    IN
    CASE s.tag = "Idle" -> {a}
      [] s.tag = "Animating" ->
            IF ended
            THEN {[a EXCEPT !.last_answer = Some(s.final_index), !.state = settled]}
            ELSE IF t >= s.next_switch
            THEN {[a EXCEPT !.state = Animating(s.final_index, i, s.end_at, t + step)]
                    : i \in shuffle_draws(s.current_index)}
            ELSE {a}
      [] s.tag = "Showing" ->
            IF expired THEN {[a EXCEPT !.state = Idle, !.last_answer = kept]} ELSE {a}

\* Mutant: the animation ends only once the clock is past end_at.
tick_late_end(a, t) == tick_variant(a, t, "late_end")
\* Mutant: the flash ends only once the clock is past until.
tick_late_until(a, t) == tick_variant(a, t, "late_until")
\* Mutant: the next switch is scheduled a whole animation away.
tick_wrong_step(a, t) == tick_variant(a, t, "wrong_step")
\* Mutant: leaving Showing clears last_answer.
tick_forget(a, t) == tick_variant(a, t, "forget")
\* Mutant: the animation ends in Idle, without the flash.
tick_skip_flash(a, t) == tick_variant(a, t, "skip_flash")

\* The App records tick() can leave when the clock reads t.
tick(a, t) ==
    LET s == a.state IN
    CASE s.tag = "Idle" -> {a}
      [] s.tag = "Animating" ->
            IF t >= s.end_at
            THEN {[a EXCEPT !.last_answer = Some(s.final_index),
                            !.state = Showing(s.final_index, t + ANSWER_FLASH_MS)]}
            ELSE IF t >= s.next_switch
            THEN {[a EXCEPT !.state =
                      Animating(s.final_index, i, s.end_at, t + ANIMATION_STEP_MS)]
                    : i \in shuffle_draws(s.current_index)}
            ELSE {a}
      [] s.tag = "Showing" ->
            IF t >= s.until THEN {[a EXCEPT !.state = Idle]} ELSE {a}

(* App::toggle_help *)

toggle_help(a) == [a EXCEPT !.help_visible = ~a.help_visible]

(* App::on_key *)

\* KeyCode: Esc, Enter, Char(c) written as the character; x stands for any other key.
KeyCodes == {"Esc", "Enter", " ", "q", "Q", "c", "C", "h", "H", "x"}
KeyKinds == {"Press", "Release"}
Keys == [code : KeyCodes, ctrl : BOOLEAN, kind : KeyKinds]
NoKey == [code |-> "none", ctrl |-> FALSE, kind |-> "none"]
LiveKeys == {k \in Keys : /\ k.kind = "Press"
                          /\ <<k.code, k.ctrl>> \in {<<"Enter", FALSE>>, <<"h", TRUE>>,
                                                     <<"q", FALSE>>, <<"x", FALSE>>}}

Outcome(a, terminate, asked) == [app |-> a, terminate |-> terminate, asked |-> asked]

\* Mutant: Esc / q / Q quits even while the overlay is open.
always_quit(a) == {Outcome(a, TRUE, FALSE)}

\* Closing the overlay, shared by the Esc and q/Q arms.
close_or_quit(a) ==
    IF a.help_visible
    THEN {Outcome([a EXCEPT !.help_visible = FALSE], FALSE, FALSE)}
    ELSE {Outcome(a, TRUE, FALSE)}

\* Mutant: Enter / Space closes the overlay and asks as well.
close_and_ask(a, t) ==
    {Outcome([b EXCEPT !.help_visible = FALSE], FALSE, TRUE) : b \in ask(a, t)}

\* The Enter / Space arm.
close_or_ask(a, t) ==
    IF a.help_visible
    THEN {Outcome([a EXCEPT !.help_visible = FALSE], FALSE, FALSE)}
    ELSE {Outcome(b, FALSE, TRUE) : b \in ask(a, t)}

\* Mutant: Ctrl+C goes through the Esc arm, so the overlay swallows it.
on_key_ctrl_c_closes(a, k, t) ==
    IF k.ctrl /\ k.code \in {"c", "C"} THEN close_or_quit(a)
    ELSE IF k.ctrl /\ k.code \in {"h", "H"} THEN {Outcome(toggle_help(a), FALSE, FALSE)}
    ELSE CASE k.code = "Esc" -> close_or_quit(a)
           [] k.code \in {"q", "Q"} -> close_or_quit(a)
           [] k.code \in {"Enter", " "} -> close_or_ask(a, t)
           [] OTHER -> {Outcome(a, FALSE, FALSE)}

\* The outcomes of on_key(k): the App it leaves, the value it returns, and
\* whether it called ask() (which reads the clock as t).
on_key(a, k, t) ==
    IF k.ctrl /\ k.code \in {"c", "C"} THEN {Outcome(a, TRUE, FALSE)}
    ELSE IF k.ctrl /\ k.code \in {"h", "H"} THEN {Outcome(toggle_help(a), FALSE, FALSE)}
    ELSE CASE k.code = "Esc" -> close_or_quit(a)
           [] k.code \in {"q", "Q"} -> close_or_quit(a)
           [] k.code \in {"Enter", " "} -> close_or_ask(a, t)
           [] OTHER -> {Outcome(a, FALSE, FALSE)}

---------------------------------------------------------------------------
(* Renderer *)

\* Mutant: while Animating the final answer's cell is lit.
active_final(a) ==
    CASE a.state.tag = "Animating" -> Some(a.state.final_index)
      [] a.state.tag = "Showing" -> Some(a.state.index)
      [] a.state.tag = "Idle" -> None

\* render_buttons: the lit index.
active_index(a) ==
    CASE a.state.tag = "Animating" -> Some(a.state.current_index)
      [] a.state.tag = "Showing" -> Some(a.state.index)
      [] a.state.tag = "Idle" -> None

\* render_buttons / draw_button: whether cell i is drawn active.
cell_active(a, i) == active_index(a) = Some(i)

\* render_header: the context line.
header_line(a) ==
    CASE a.state.tag = "Animating" -> "Lights are shuffling... hold tight!"
      [] a.state.tag = "Showing" -> "Final answer locked in. Ask again any time."
      [] a.state.tag = "Idle" ->
            IF a.last_answer = None
            THEN "Need instructions? Press Ctrl+H for help."
            ELSE "Ready for another? Press Enter or Space to ask again."

\* render_footer: the status line, as <<prefix, answer>>.
status_line(a) ==
    CASE a.state.tag = "Animating" -> <<"Consulting the oracle...">>
      [] a.state.tag = "Showing" -> <<"Answer: ", ANSWERS[a.state.index + 1]>>
      [] a.state.tag = "Idle" ->
            IF a.last_answer # None
            THEN <<"Final Answer: ", ANSWERS[a.last_answer[1] + 1]>>
            ELSE <<"Ready when you are.">>

\* ui: the frame drawn for App a.
ui(a) ==
    [cells |-> [i \in Indices |-> cell_active(a, i)],
     header |-> header_line(a),
     status |-> status_line(a),
     overlay |-> a.help_visible]

\* Nothing drawn yet in this iteration of the loop.
NoFrame == [cells |-> [i \in Indices |-> FALSE], header |-> "", status |-> <<>>,
            overlay |-> FALSE]

---------------------------------------------------------------------------
(* Driver *)

NoModes == [raw |-> FALSE, alt |-> FALSE, cursor_hidden |-> FALSE]

\* setup_terminal: the modes held when it returns, by the step that failed.
\* Dropping the Terminal value may show the cursor again.
setup_terminal(failed) ==
    CASE failed = "enable_raw_mode" -> {NoModes}
      [] failed = "EnterAlternateScreen" -> {[NoModes EXCEPT !.raw = TRUE]}
      [] failed = "Terminal::new" -> {NoModes}
      [] failed = "hide_cursor" -> {[NoModes EXCEPT !.raw = TRUE, !.alt = TRUE]}
      [] failed = "clear" ->
            {[raw |-> TRUE, alt |-> TRUE, cursor_hidden |-> h] : h \in BOOLEAN}
      [] failed = "none" -> {[raw |-> TRUE, alt |-> TRUE, cursor_hidden |-> TRUE]}

SetupSteps == {"enable_raw_mode", "EnterAlternateScreen", "Terminal::new",
               "hide_cursor", "clear"}

\* cleanup_terminal: the modes held when it returns, by the step that failed.
cleanup_terminal(m, failed) ==
    CASE failed = "show_cursor" -> m
      [] failed = "LeaveAlternateScreen" -> [m EXCEPT !.cursor_hidden = FALSE]
      [] failed = "disable_raw_mode" ->
            [m EXCEPT !.cursor_hidden = FALSE, !.alt = FALSE]
      [] failed = "none" -> NoModes

CleanupSteps == {"show_cursor", "LeaveAlternateScreen", "disable_raw_mode"}

Init ==
    /\ app = new
    /\ now = 0
    /\ pc = "setup"
    /\ key = NoKey
    /\ term = NoModes
    /\ result = "Ok"
    /\ exit_path = "none"
    /\ frame = NoFrame
    /\ asks = 0
    /\ ask_at = 0
    /\ ask_final = 0
    /\ shown = 0
    /\ shuffled = FALSE

History == <<asks, ask_at, ask_final, shown, shuffled>>

\* main: let mut terminal = setup_terminal()?; then run_app creates the App.
Setup ==
    /\ pc = "setup"
    /\ \E failed \in SetupSteps \cup {"none"} :
          /\ term' \in setup_terminal(failed)
          /\ IF failed = "none"
             THEN /\ pc' = "tick"
                  /\ UNCHANGED <<result, exit_path>>
             ELSE /\ pc' = "exited"
                  /\ result' = "Err"
                  /\ exit_path' = "setup_error"
    /\ app' = new
    /\ UNCHANGED <<now, key, frame, History>>

\* run_app: app.tick(), the clock read at an instant of I.
TickAt(I) ==
    /\ pc = "tick"
    /\ \E t \in Readings(I, now) : \E b \in tick(app, t) :
          /\ now' = t
          /\ app' = b
          /\ shown' = IF app.state.tag = "Animating" /\ b.state.tag = "Showing"
                      THEN shown + 1 ELSE shown
          /\ shuffled' = (shuffled \/ (app.state.tag = "Animating"
                                       /\ b.state.tag = "Animating" /\ b # app))
    /\ pc' = "draw"
    /\ frame' = NoFrame
    /\ UNCHANGED <<key, term, result, exit_path, asks, ask_at, ask_final>>

Tick == TickAt(Instants)

\* run_app: terminal.draw(|f| ui(f, &app))?
DrawOk ==
    /\ pc = "draw"
    /\ frame' = ui(app)
    /\ pc' = "poll"
    /\ UNCHANGED <<app, now, key, term, result, exit_path, History>>

\* An Err from draw, poll or read leaves the loop through `?`.
LoopError(at) ==
    /\ pc = at
    /\ pc' = "cleanup"
    /\ result' = "Err"
    /\ exit_path' = "loop_error"
    /\ UNCHANGED <<app, now, key, term, frame, History>>

\* A panic while drawing unwinds through run_app and main; dropping the
\* Terminal value may show the cursor again.
DrawPanic ==
    /\ pc = "draw"
    /\ pc' = "exited"
    /\ result' = "Panic"
    /\ exit_path' = "panic"
    /\ \E h \in {term.cursor_hidden, FALSE} : term' = [term EXCEPT !.cursor_hidden = h]
    /\ UNCHANGED <<app, now, key, frame, History>>

\* Whether on_key(k) would call ask().
InvokesAsk(a, k) == \E o \in on_key(a, k, 0) : o.asked

\* run_app: event::poll(..)? returned false, or event::read()? returned an
\* event that is not a key.
PollNothing ==
    /\ pc = "poll"
    /\ pc' = "tick"
    /\ UNCHANGED <<app, now, key, term, result, exit_path, frame, History>>

\* run_app: event::poll(..)? returned true and event::read()? a key event,
\* one of K.
PollKeyFrom(K) ==
    /\ pc = "poll"
    /\ \E k \in K :
          /\ InvokesAsk(app, k) => asks < MaxAsks
          /\ key' = k
    /\ pc' = "on_key"
    /\ UNCHANGED <<app, now, term, result, exit_path, frame, History>>

PollKey == PollKeyFrom(Keys)

\* Mutant: after a key the loop polls again before it ticks and draws.
OnKeyThenPoll(I) ==
    /\ pc = "on_key"
    /\ \E t \in Readings(I, now) : \E o \in on_key(app, key, t) :
          /\ app' = o.app
          /\ IF o.asked
             THEN /\ now' = t
                  /\ asks' = asks + 1
                  /\ ask_at' = t
                  /\ ask_final' = o.app.state.final_index
                  /\ shown' = 0
                  /\ shuffled' = FALSE
             ELSE UNCHANGED <<now, History>>
          /\ IF o.terminate
             THEN pc' = "cleanup" /\ exit_path' = "quit"
             ELSE pc' = "poll" /\ UNCHANGED exit_path
    /\ key' = NoKey
    /\ UNCHANGED <<term, result, frame>>

\* run_app: if app.on_key(key) { break; }, the clock read at an instant of I.
OnKeyAt(I) ==
    /\ pc = "on_key"
    /\ \E t \in Readings(I, now) : \E o \in on_key(app, key, t) :
          /\ app' = o.app
          /\ IF o.asked
             THEN /\ now' = t
                  /\ asks' = asks + 1
                  /\ ask_at' = t
                  /\ ask_final' = o.app.state.final_index
                  /\ shown' = 0
                  /\ shuffled' = FALSE
             ELSE UNCHANGED <<now, History>>
          /\ IF o.terminate
             THEN pc' = "cleanup" /\ exit_path' = "quit"
             ELSE pc' = "tick" /\ UNCHANGED exit_path
    /\ key' = NoKey
    /\ UNCHANGED <<term, result, frame>>

OnKey == OnKeyAt(Instants)

\* main: cleanup_terminal(&mut terminal)?; result
Cleanup ==
    /\ pc = "cleanup"
    /\ \E failed \in CleanupSteps \cup {"none"} :
          /\ term' = cleanup_terminal(term, failed)
          /\ result' = IF failed = "none" THEN result ELSE "Err"
    /\ pc' = "exited"
    /\ UNCHANGED <<app, now, key, exit_path, frame, History>>

Next ==
    \/ Setup
    \/ Tick
    \/ DrawOk
    \/ DrawPanic
    \/ LoopError("draw")
    \/ LoopError("poll")
    \/ PollNothing
    \/ PollKey
    \/ OnKey
    \/ Cleanup

Spec == Init /\ [][Next]_vars

LiveTick == TickAt(LiveInstants)
LivePollKey == PollKeyFrom(LiveKeys)
LiveOnKey == OnKeyAt(LiveInstants)

\* A tick at which the clock has moved on.
TickLater == LiveTick /\ now' > now

LiveNext ==
    \/ Setup
    \/ LiveTick
    \/ DrawOk
    \/ DrawPanic
    \/ LoopError("draw")
    \/ LoopError("poll")
    \/ PollNothing
    \/ LivePollKey
    \/ LiveOnKey
    \/ Cleanup

\* The loop keeps iterating (each of its steps is taken once it can be) and
\* the clock keeps advancing (ticks keep reading later instants while there
\* are any).
LiveSpec ==
    /\ Init /\ [][LiveNext]_vars
    /\ WF_vars(LiveTick) /\ WF_vars(DrawOk) /\ WF_vars(PollNothing) /\ WF_vars(LiveOnKey)
    /\ SF_vars(TickLater)

TypeOK ==
    /\ app.help_visible \in BOOLEAN
    /\ app.state.tag \in {"Idle", "Animating", "Showing"}
    /\ now \in Instants
    /\ pc \in {"setup", "tick", "draw", "poll", "on_key", "cleanup", "exited"}
    /\ asks \in 0 .. MaxAsks

---------------------------------------------------------------------------
(* Shorthands for the claims *)

IsIdle == app.state.tag = "Idle"
IsAnimating == app.state.tag = "Animating"
IsShowing == app.state.tag = "Showing"
InLoop == pc \in {"tick", "draw", "poll", "on_key"}
Left == pc \in {"cleanup", "exited"}
\* The last instant the liveness specification's clock reads.
LastInstant == CHOOSE m \in LiveInstants : \A u \in LiveInstants : u <= m

---------------------------------------------------------------------------
\* C1: after an ask() at t0 that chose final_index f, with only tick() calls
\* following, every tick reading an instant < end_at = t0 + 2000 ms leaves
\* the state Animating, the first tick reading an instant >= end_at moves it
\* to Showing with index f, and Showing is entered exactly once per ask.
C1_AnswerShownOnce ==
    /\ [](IsAnimating => /\ app.state.final_index = ask_final
                         /\ app.state.end_at = ask_at + ANIMATION_DURATION_MS
                         /\ shown = 0)
    /\ [](IsShowing => shown = 1 /\ app.state.index = ask_final)
    /\ [](shown <= 1)
    /\ [][(pc = "tick" /\ IsAnimating) =>
            IF now' < ask_at + ANIMATION_DURATION_MS
            THEN app'.state.tag = "Animating" /\ shown' = 0
            ELSE app'.state = Showing(ask_final, now' + ANSWER_FLASH_MS) /\ shown' = 1]_vars
    /\ [][(app'.state.tag = "Showing" /\ ~IsShowing) => (pc = "tick" /\ IsAnimating)]_vars

\* The tick that read exactly end_at has moved the state to Showing.
C1_Witness ==
    /\ pc = "draw" /\ IsShowing /\ shown = 1
    /\ now = ask_at + ANIMATION_DURATION_MS
    /\ app.state.until = now + ANSWER_FLASH_MS

\* C2 (as claimed): whenever the program has left by a user quit, by an
\* error of draw/poll/read in the loop or by a panic in the loop, no
\* terminal mode is still held.
C2_EveryExitReleases ==
    (pc = "exited" /\ exit_path \in {"quit", "loop_error", "panic"}) => term = NoModes

\* C3: after an ask() that no later ask() supersedes, while the loop keeps
\* iterating and the clock keeps advancing, the machine reaches Showing with
\* that ask's final_index and afterwards Idle with last_answer = Some of it
\* (for deadlines the clock's readings reach).
C3_SettlesThenIdles ==
    \A k \in 1 .. MaxAsks :
        /\ (IsAnimating /\ asks = k /\ InLoop /\ app.state.end_at <= LastInstant)
              ~> \/ IsShowing /\ asks = k /\ app.state.index = ask_final
                 \/ asks > k
                 \/ Left
        /\ (IsShowing /\ asks = k /\ InLoop /\ app.state.until <= LastInstant)
              ~> \/ IsIdle /\ asks = k /\ app.last_answer = Some(ask_final)
                 \/ asks > k
                 \/ Left

\* The loop is Idle again with the answer of the latest ask() retained.
C3_Witness ==
    /\ InLoop /\ IsIdle /\ asks >= 1 /\ shown = 1
    /\ app.last_answer = Some(ask_final)

\* C4 (as claimed): on_key applied to a key-release event returns false and
\* leaves the App record unchanged.
C4_ReleaseIgnored ==
    [][(pc = "on_key" /\ key.kind = "Release") => (app' = app /\ pc' = "tick")]_vars

\* C5 (as claimed): in every Animating state current_index # final_index.
C5_NeverOnFinal ==
    IsAnimating => app.state.current_index # app.state.final_index

\* C5 (amended): in every Animating state on which no shuffle step has yet
\* acted, that is as ask() produced it, current_index # final_index.
C5_DistinctAsAsked ==
    (IsAnimating /\ ~shuffled) => app.state.current_index # app.state.final_index

\* ask() has just produced an Animating state.
C5_Witness ==
    pc = "tick" /\ IsAnimating /\ ~shuffled /\ asks >= 1 /\ now = ask_at

\* C6 (as claimed): in every Animating state end_at >= next_switch and
\* next_switch >= the instant of the ask() that started the animation.
C6_EndNotBeforeSwitch ==
    IsAnimating => /\ app.state.end_at >= app.state.next_switch
                   /\ app.state.next_switch >= ask_at

\* C6 (amended): in every Animating state next_switch >= the instant of the
\* ask() that started the animation and next_switch < end_at + 120 ms; as
\* ask() produced it, end_at >= next_switch.
C6_SwitchWithinOneStep ==
    IsAnimating => /\ app.state.next_switch >= ask_at
                   /\ app.state.next_switch < app.state.end_at + ANIMATION_STEP_MS
                   /\ (~shuffled => app.state.end_at >= app.state.next_switch)

\* A shuffle step in the last 120 ms before end_at has acted.
C6_Witness ==
    IsAnimating /\ shuffled /\ app.state.next_switch > app.state.end_at

\* C7: a tick() that changes an Animating state into an Animating state
\* produces a current_index different from the one before and keeps
\* final_index and end_at; the Animating state ask() produces has
\* current_index # final_index.
C7_LightMoves ==
    [][/\ (pc = "tick" /\ IsAnimating /\ app'.state.tag = "Animating" /\ app' # app) =>
            /\ app'.state.current_index # app.state.current_index
            /\ app'.state.final_index = app.state.final_index
            /\ app'.state.end_at = app.state.end_at
       /\ (asks' = asks + 1) =>
            /\ app'.state.tag = "Animating"
            /\ app'.state.current_index # app'.state.final_index]_vars

\* A shuffle step has put the light on the final answer's cell.
C7_Witness ==
    /\ pc = "draw" /\ IsAnimating /\ shuffled
    /\ app.state.current_index = app.state.final_index

\* C8: while Animating last_answer = None; while Showing{index}
\* last_answer = Some(index); the step Showing -> Idle leaves last_answer
\* equal to the index that was shown.
C8_LastAnswerByPhase ==
    /\ []((IsAnimating => app.last_answer = None)
          /\ (IsShowing => app.last_answer = Some(app.state.index)))
    /\ [][(IsShowing /\ app'.state.tag = "Idle") =>
            app'.last_answer = Some(app.state.index)]_vars

\* A second question has just been asked from Idle, after the first was
\* answered and its flash had ended.
C8_Witness ==
    /\ pc = "tick" /\ IsAnimating /\ asks = 2 /\ app.last_answer = None
    /\ frame.header = "Ready for another? Press Enter or Space to ask again."

\* C9: last_answer changes value only in a tick() that takes Animating to
\* Showing (to Some(final_index)) or in an on_key() that calls ask() (to
\* None).
C9_LastAnswerChanges ==
    [][app'.last_answer # app.last_answer =>
         \/ /\ pc = "tick" /\ IsAnimating /\ app'.state.tag = "Showing"
            /\ app'.last_answer = Some(app.state.final_index)
         \/ /\ pc = "on_key" /\ asks' = asks + 1
            /\ app'.last_answer = None]_vars

\* ask() has just cleared an answer that the frame before the key showed.
C9_Witness ==
    /\ pc = "tick" /\ IsAnimating /\ ~shuffled /\ app.last_answer = None
    /\ frame.header = "Final answer locked in. Ask again any time."

\* C10: an on_key() call that changes help_visible leaves state and
\* last_answer unchanged.
C10_HelpKeysLeaveState ==
    [][(pc = "on_key" /\ app'.help_visible # app.help_visible) =>
         (app'.state = app.state /\ app'.last_answer = app.last_answer)]_vars

\* Enter has just closed the overlay during an animation.
C10_Witness ==
    /\ pc = "tick" /\ IsAnimating /\ ~app.help_visible
    /\ frame.overlay /\ frame.header = "Lights are shuffling... hold tight!"

\* C11: for Esc, q and Q in any presentation state, on_key with the overlay
\* open returns false and only closes it, and with the overlay closed
\* returns true (the App left as it is); so a second Esc after one that
\* closed the overlay behaves as one Esc on the help-hidden state.
C11_EscClosesThenQuits ==
    [][(pc = "on_key" /\ key.code \in {"Esc", "q", "Q"}) =>
          IF app.help_visible
          THEN /\ pc' = "tick"
               /\ app' = [app EXCEPT !.help_visible = FALSE]
          ELSE /\ pc' = "cleanup" /\ exit_path' = "quit"
               /\ app' = app]_vars

\* A key has ended the loop with the overlay closed, in the middle of a
\* flash that was drawn with the overlay closed.
C11_Witness ==
    /\ pc = "cleanup" /\ exit_path = "quit" /\ IsShowing
    /\ ~app.help_visible /\ ~frame.overlay /\ frame.header # ""

\* C12: for Enter and Space on_key returns false; with the overlay open it
\* only closes it and calls no ask(); with the overlay closed it calls ask()
\* from whatever the presentation state is, leaving Animating with
\* last_answer = None, end_at = now + 2000 ms and next_switch = now.
C12_EnterClosesOrAsks ==
    [][(pc = "on_key" /\ key.code \in {"Enter", " "}) =>
          /\ pc' = "tick"
          /\ IF app.help_visible
             THEN /\ app' = [app EXCEPT !.help_visible = FALSE]
                  /\ asks' = asks /\ now' = now
             ELSE /\ asks' = asks + 1 /\ now' >= now
                  /\ app'.help_visible = FALSE
                  /\ app'.last_answer = None
                  /\ app'.state.tag = "Animating"
                  /\ app'.state.end_at = now' + ANIMATION_DURATION_MS
                  /\ app'.state.next_switch = now'
                  /\ app'.state.final_index \in Indices
                  /\ app'.state.current_index \in Indices]_vars

\* ask() has just run on top of an animation that was still being drawn.
C12_Witness ==
    /\ pc = "tick" /\ IsAnimating /\ ~shuffled /\ asks = 2
    /\ app.state.end_at = now + ANIMATION_DURATION_MS /\ app.state.next_switch = now
    /\ ~frame.overlay /\ frame.header = "Lights are shuffling... hold tight!"

\* C13: on_key with Control held and code c or C returns true in every App
\* state, overlay open or closed, and once the loop is left no tick or key
\* is applied: the App, the clock reading and the frame stay as they are.
C13_CtrlCQuits ==
    /\ [][(pc = "on_key" /\ key.ctrl /\ key.code \in {"c", "C"}) =>
            (pc' = "cleanup" /\ exit_path' = "quit" /\ app' = app)]_vars
    /\ [][Left => (Left' /\ app' = app /\ now' = now /\ frame' = frame
                   /\ key' = key /\ asks' = asks)]_vars

\* The loop was left by a key while the overlay was open, which only Ctrl+C
\* does, during an animation.
C13_Witness ==
    /\ pc = "exited" /\ exit_path = "quit" /\ app.help_visible /\ IsAnimating

\* C14: each iteration of the loop runs tick, then draw, then poll, then at
\* most one on_key; draw and poll leave the App as it is, so a key is applied
\* to exactly the App the draw just before it rendered, and between two
\* applied keys there is a draw.
C14_TickDrawPollKey ==
    /\ [][/\ pc = "tick" => pc' = "draw"
          /\ pc = "draw" => (pc' \in {"poll", "cleanup", "exited"} /\ app' = app)
          /\ pc = "poll" => (pc' \in {"tick", "on_key", "cleanup"} /\ app' = app)
          /\ pc = "on_key" => pc' \in {"tick", "cleanup"}
          /\ (pc' = "on_key" => pc = "poll")
          /\ (pc' = "poll" => (pc = "draw" /\ frame' = ui(app)))]_vars
    /\ [](pc = "on_key" => frame = ui(app))

\* After two keys that asked, a third key waits to be applied to the
\* animation that was just drawn.
C14_Witness ==
    /\ pc = "on_key" /\ asks = 2 /\ IsAnimating /\ shuffled
    /\ frame = ui(app) /\ key.code = "H" /\ key.ctrl

\* C15 (as claimed): when a step of terminal setup fails, raw mode is
\* disabled and the alternate screen left before the error leaves the
\* program.
C15_FailedSetupUndone ==
    (pc = "exited" /\ exit_path = "setup_error") => (~term.raw /\ ~term.alt)

\* C16 (as claimed): the first tick() after an ask() performs a shuffle
\* step, and draw is never handed the Animating state as ask() produced it.
C16_FirstTickShuffles ==
    /\ [][(pc = "tick" /\ IsAnimating /\ ~shuffled) =>
            /\ app'.state.tag = "Animating"
            /\ app'.state.current_index # app.state.current_index
            /\ app'.state.next_switch = now' + ANIMATION_STEP_MS]_vars
    /\ []((pc = "draw" /\ IsAnimating) => shuffled)

\* C16 (amended): the first tick() after an ask() performs a shuffle step
\* when it reads an instant < end_at and otherwise moves straight to
\* Showing; draw is never handed the Animating state as ask() produced it.
C16_FirstTickShufflesOrShows ==
    /\ [][(pc = "tick" /\ IsAnimating /\ ~shuffled) =>
            IF now' < app.state.end_at
            THEN /\ app'.state.tag = "Animating"
                 /\ app'.state.current_index # app.state.current_index
                 /\ app'.state.next_switch = now' + ANIMATION_STEP_MS
            ELSE app'.state.tag = "Showing"]_vars
    /\ []((pc = "draw" /\ IsAnimating) =>
            (shuffled /\ app.state.next_switch > ask_at))

\* The first tick after an ask() has shuffled, at the instant of the ask.
C16_Witness ==
    /\ pc = "draw" /\ IsAnimating /\ shuffled /\ now = ask_at
    /\ app.state.next_switch = ask_at + ANIMATION_STEP_MS

\* C17: tick() takes Animating to Showing iff it reads t >= end_at and
\* otherwise leaves it Animating, takes Showing to Idle iff it reads
\* t >= until and otherwise leaves it as it is, and changes nothing in Idle;
\* on_key() changes the presentation state only by ask(), to Animating; no
\* other step changes it.  So Animating never goes straight to Idle, nor
\* Idle straight to Showing.
C17_VariantTransitions ==
    [][/\ (pc = "tick" /\ IsIdle) => app' = app
       /\ (pc = "tick" /\ IsAnimating) =>
            app'.state.tag = (IF now' >= app.state.end_at THEN "Showing" ELSE "Animating")
       /\ (pc = "tick" /\ IsShowing) =>
            IF now' >= app.state.until THEN app'.state = Idle
            ELSE app'.state = app.state
       /\ (pc = "on_key" /\ app'.state # app.state) =>
            (asks' = asks + 1 /\ app'.state.tag = "Animating")
       /\ (pc \notin {"tick", "on_key"}) => app'.state = app.state
       /\ ~(IsAnimating /\ app'.state.tag = "Idle")
       /\ ~(IsIdle /\ app'.state.tag = "Showing")]_vars

\* The second question has gone all the way round: asked, animated, shown
\* and back to Idle.
C17_Witness ==
    /\ pc = "draw" /\ IsIdle /\ asks = 2 /\ shown = 1
    /\ app.last_answer = Some(ask_final)

\* The cell the renderer is to light for App a, if any.
LitCell(i) ==
    CASE IsAnimating -> i = app.state.current_index
      [] IsShowing -> i = app.state.index
      [] IsIdle -> FALSE

\* C18: the renderer marks cell i active iff i = current_index while
\* Animating and i = index while Showing, and no cell while Idle: one
\* active cell in Animating and Showing, none in Idle, the same with the
\* overlay open or closed.
C18_OneLitCell ==
    /\ \A i \in Indices : cell_active(app, i) = LitCell(i)
    /\ \A h \in BOOLEAN : ui([app EXCEPT !.help_visible = h]).cells = ui(app).cells
    /\ Cardinality({i \in Indices : ui(app).cells[i]}) = (IF IsIdle THEN 0 ELSE 1)
    /\ pc \in {"poll", "on_key"} => \A i \in Indices : frame.cells[i] = LitCell(i)

\* A flash has been drawn under the open overlay, its answer's cell lit.
C18_Witness ==
    /\ pc = "poll" /\ IsShowing /\ app.help_visible /\ frame.overlay
    /\ frame.cells[app.state.index]
    /\ app.state.index # 0 /\ ~frame.cells[0]

\* C19: every Showing state has the final_index of the most recent ask()
\* and was entered no earlier than 2000 ms after that ask(); last_answer is
\* only ever set to the final_index of the most recent ask(), so an ask()
\* that another one superseded never sets it.
C19_LatestAskWins ==
    /\ [](IsShowing =>
            /\ app.state.index = ask_final
            /\ app.state.until >= ask_at + ANIMATION_DURATION_MS + ANSWER_FLASH_MS)
    /\ [][(app'.last_answer # app.last_answer /\ app'.last_answer # None) =>
            /\ app'.last_answer = Some(ask_final)
            /\ asks' = asks
            /\ now' >= ask_at + ANIMATION_DURATION_MS]_vars
    /\ [][(pc = "on_key" /\ asks' = asks + 1) =>
            /\ app'.last_answer = None
            /\ app'.state.end_at = ask_at' + ANIMATION_DURATION_MS
            /\ app'.state.final_index = ask_final']_vars

\* The answer of a second ask() is shown; that ask() came less than 2000 ms
\* after the first, whose animation it therefore superseded.
C19_Witness ==
    /\ IsShowing /\ asks = 2 /\ ask_at > 0 /\ ask_at < ANIMATION_DURATION_MS
    /\ app.last_answer = Some(ask_final)

\* C20: every stored index is within 0..5: final_index and current_index in
\* Animating, index in Showing and the value inside last_answer; so the
\* renderer's ANSWERS[...] lookups are in range.
C20_IndicesInRange ==
    /\ IsAnimating => (app.state.final_index \in Indices
                       /\ app.state.current_index \in Indices)
    /\ IsShowing => (app.state.index \in Indices
                     /\ app.state.index + 1 \in DOMAIN ANSWERS)
    /\ app.last_answer # None => (app.last_answer[1] \in Indices
                                  /\ app.last_answer[1] + 1 \in DOMAIN ANSWERS)

\* The last answer of the table has been looked up for the footer.
C20_Witness ==
    /\ pc = "poll" /\ IsIdle /\ app.last_answer = Some(N - 1)
    /\ frame.status = <<"Final Answer: ", "WHY NOT">>

====
